---- MODULE Spec2Model ----
(***************************************************************************)
(* Model of the asynchronous logger in common/log.cpp: struct gpt_log (a   *)
(* growable ring buffer of gpt_log_entry guarded by one mutex, a worker    *)
(* thread that drains it, and the pause / resume / set_file lifecycle).    *)
(*                                                                         *)
(* Granularity.  add, resume, set_timestamps and the locked part of pause  *)
(* run under std::lock_guard from their first to their last statement, so  *)
(* each is one action that needs the mutex free.  The worker takes the     *)
(* mutex, waits on the condition variable / dequeues, and then prints      *)
(* without the mutex, so it is several actions.  thrd.join() in pause and  *)
(* the fclose / fopen / resume tail of set_file run without the mutex and  *)
(* are actions of their own.                                               *)
(*                                                                         *)
(* The text of a message is represented by the number of the add call that *)
(* formatted it (0 = a slot whose text was never written).                 *)
(***************************************************************************)
EXTENDS Integers, Sequences, FiniteSets, TLC

\* ------------------------------------------------------------------ bounds
MaxCapacity == 2        \* the constructor's capacity ranges over 1..MaxCapacity
MaxAdds     == 3        \* Spec: add calls made over a run
MaxCalls    == 3        \* Spec: pause, resume and set_file calls made over a run
MaxStampAdds == 2       \* StampSpec: add calls made over a run
MaxFairAdds  == 3       \* FairSpec: add calls made over a run

Threads     == {1, 2}   \* the threads that call the API (never the worker)
Levels      == {"NONE", "INFO", "WARN", "ERROR", "DEBUG"}   \* enum ggml_log_level
ClockValues == {0, 1, 2}            \* readings of t_us()
StartValues == {1}                  \* reading of t_us() in the constructor
Paths       == {"path", "null"}     \* set_file: path != nullptr / path == nullptr

\* ------------------------------------------------------------------- state
VARIABLES
    entries,     \* std::vector<gpt_log_entry> entries, as a function on 0..size-1
    head,        \* size_t head
    tail,        \* size_t tail
    cur,         \* gpt_log_entry cur: the worker's copy
    running,     \* bool running
    timestamps,  \* bool timestamps
    t_start,     \* int64_t t_start
    file,        \* FILE * file: 0 is nullptr, n > 0 the n-th stream fopen returned
    closes,      \* per stream fopen returned: the number of fclose calls on it
    nopens,      \* number of fopen calls that returned a stream
    joinable,    \* thrd.joinable()
    wpc,         \* position of the worker thread that thrd names
    mtx,         \* owner of std::mutex mtx: "free" or "worker"
    tpc,         \* position of each API thread
    aborted,     \* std::terminate() was called
    spawned,     \* std::thread objects started and not yet joined
    \* history
    nadds,       \* add calls so far
    ncalls,      \* pause, resume and set_file calls so far
    accepted,    \* add calls that wrote a slot, in the order they held the mutex
    queue,       \* what was written at tail and not yet taken at head, oldest
                 \* first: the number of the add call, or End for a sentinel
    dropped,     \* add calls that returned at the !running test
    rendered,    \* the worker's cur.print() calls, in order
    flog,        \* the worker's cur.print(file) calls, in order
    snap,        \* per API thread: Len(accepted) when its pause wrote the sentinel
    pfile,       \* per API thread: the open stream file named when its pause wrote the sentinel
    born,        \* per stream: Len(accepted) when the set_file call that opened it began
    sfStart,     \* per API thread: Len(accepted) when its set_file call began
    sfRunning,   \* per API thread: its set_file call found the instance running
    sfDrops,     \* per API thread: add calls dropped since its set_file paused the instance
    sfPath,      \* per API thread: the path argument of its set_file call ("path",
                 \* "null"), and after fopen its result ("opened", "failed")
    lostAcross   \* add calls dropped inside a set_file call that has returned

vars == <<entries, head, tail, cur, running, timestamps, t_start, file, closes,
          nopens, joinable, wpc, mtx, tpc, aborted, spawned, nadds, ncalls,
          accepted, queue, dropped, rendered, flog, snap, pfile, born, sfStart,
          sfRunning, sfDrops, sfPath, lostAcross>>

\* ----------------------------------------------------------- gpt_log_entry
\* a value-initialized gpt_log_entry (entries.resize, new_entries(2*size))
EmptyEntry == [level |-> "NONE", timestamp |-> 0, msg |-> 0, is_end |-> FALSE]

\* the mark of a sentinel in queue
End == -1

\* C++ integer remainder: the sign follows the dividend
CRem(a, b) == IF a >= 0 THEN a % b ELSE -((-a) % b)

\* gpt_log_entry::print: the tag printed after the time prefix
tag(level) ==
    CASE level = "INFO"  -> "I "
      [] level = "WARN"  -> "W "
      [] level = "ERROR" -> "E "
      [] level = "DEBUG" -> "D "
      [] OTHER           -> ""

\* gpt_log_entry::print(FILE * file): what one call writes; f = 0 is the
\* console call print().  shown = "verbose" marks the console call of a DEBUG
\* entry, which returns at once unless gpt_log_verbosity_env is high enough.
print(e, f) ==
    [msg    |-> e.msg,
     level  |-> e.level,
     shown  |-> IF f = 0 /\ e.level = "DEBUG" THEN "verbose" ELSE "always",
     stream |-> IF f # 0 THEN "file" ELSE IF e.level # "NONE" THEN "stderr" ELSE "stdout",
     prefix |-> e.level # "NONE" /\ e.timestamp # 0,
     us     |-> CRem(e.timestamp, 1000),
     tag    |-> IF e.level # "NONE" THEN tag(e.level) ELSE ""]

\* ------------------------------------------------------------- ring buffer
size(es) == Cardinality(DOMAIN es)

\* mutant of NextIndex: the index advances without wrapping
NextIndexNoWrap(i, n) == i + 1

\* (i + 1) % entries.size()
NextIndex(i, n) == (i + 1) % n

\* mutant of CanAdd: add without the test of running
CanAddAlways == TRUE

\* add: the test `if (!running) return;`
CanAdd == running

\* mutant of NewEntry: add leaves the slot's is_end as it was
NewEntryKeepsEnd(old, level, ts, m) ==
    [level |-> level, timestamp |-> ts, msg |-> m, is_end |-> old.is_end]

\* add: what the slot at tail holds after the formatted text, entry.level,
\* entry.timestamp and entry.is_end = false were stored in it
NewEntry(old, level, ts, m) ==
    [level |-> level, timestamp |-> ts, msg |-> m, is_end |-> FALSE]

\* add: entry.timestamp = 0; if (timestamps) entry.timestamp = t_us() - t_start;
StampOf(now) == IF timestamps THEN now - t_start ELSE 0

\* mutant of Expand: the entries are copied from slot 0, not from head
ExpandFromZero(es, h) ==
    [i \in 0 .. 2 * size(es) - 1 |->
        IF i < size(es) THEN es[i] ELSE EmptyEntry]

\* mutant of Expand: the loop stops one entry early and the entry written
\* last stays behind in the old vector
ExpandLeavesLast(es, h) ==
    [i \in 0 .. 2 * size(es) - 1 |->
        IF i < size(es) - 1 THEN es[(h + i) % size(es)] ELSE EmptyEntry]

\* add: the do-while loop that moves the size(es) entries starting at h into
\* new_entries[0 ..], and the 2*size(es) value-initialized vector around them
Expand(es, h) ==
    [i \in 0 .. 2 * size(es) - 1 |->
        IF i < size(es) THEN es[(h + i) % size(es)] ELSE EmptyEntry]

\* cv.notify_one(): a worker blocked in cv.wait is made runnable
Notify(w) == IF w = "blocked" THEN "woken" ELSE w

\* mutant of Breaks: the worker leaves its loop on any entry
BreaksAlways(e) == TRUE

\* worker: if (cur.is_end) break;
Breaks(e) == e.is_end

\* mutant of JoinReady: pause does not wait for the worker
JoinReadyAlways == TRUE

\* pause: thrd.join() returns once the worker's function has returned
JoinReady == wpc = "exited"

Streams == 1 .. MaxCalls + 1

\* the stream is one fopen returned and fclose was never called on it
IsOpen(f) == f \in 1 .. nopens /\ closes[f] = 0

Idle(t) == tpc[t] = "idle" /\ ~aborted
Free    == mtx = "free"

\* --------------------------------------------------------------------- add
add(t, level, now) ==
    /\ Idle(t) /\ Free
    /\ nadds' = nadds + 1
    /\ IF ~CanAdd
       THEN /\ dropped' = dropped \cup {nadds + 1}
            /\ sfDrops' = [u \in Threads |->
                 IF tpc[u] \in {"sf_join", "sf_close", "sf_open", "sf_resume"}
                 THEN sfDrops[u] \cup {nadds + 1} ELSE sfDrops[u]]
            /\ UNCHANGED <<entries, head, tail, wpc, accepted, queue>>
       ELSE LET e  == NewEntry(entries[tail], level, StampOf(now), nadds + 1)
                es == [entries EXCEPT ![tail] = e]
                nt == NextIndex(tail, size(entries))
            IN /\ IF nt = head
                  THEN /\ entries' = Expand(es, head)
                       /\ head' = 0
                       /\ tail' = size(entries)
                  ELSE /\ entries' = es
                       /\ tail' = nt
                       /\ head' = head
               /\ wpc' = Notify(wpc)
               /\ accepted' = Append(accepted,
                     [msg |-> nadds + 1, level |-> level,
                      stamped |-> timestamps, file |-> file,
                      quiet |-> \A u \in Threads : tpc[u] \in {"idle", "pause_join"}])
               /\ queue' = Append(queue, nadds + 1)
               /\ UNCHANGED <<dropped, sfDrops>>
    /\ UNCHANGED <<ncalls, cur, running, timestamps, t_start, file, closes, nopens,
                   joinable, mtx, tpc, aborted, spawned, rendered, flog, snap,
                   pfile, born, sfStart, sfRunning, sfPath, lostAcross>>

\* ---------------------------------------------------------- set_timestamps
set_timestamps(t, b) ==
    /\ Idle(t) /\ Free
    /\ timestamps' = b
    /\ UNCHANGED <<queue, ncalls, entries, head, tail, cur, running, t_start, file, closes,
                   nopens, joinable, wpc, mtx, tpc, aborted, spawned, nadds,
                   accepted, dropped, rendered, flog, snap, pfile, born,
                   sfStart, sfRunning, sfDrops, sfPath, lostAcross>>

\* ------------------------------------------------------------------ resume
\* mutant of resumeBody: resume without the test of running
resumeBodyNoTest ==
    /\ running' = TRUE
    /\ spawned' = spawned + 1
    /\ IF joinable
       THEN /\ aborted' = TRUE
            /\ UNCHANGED <<wpc, joinable>>
       ELSE /\ wpc' = "loop"
            /\ joinable' = TRUE
            /\ aborted' = aborted

\* The body of resume(), as a relation on the variables it touches.
\* thrd = std::thread(...) first starts the new thread and then move-assigns:
\* the assignment calls std::terminate() when thrd is still joinable.  thrd is
\* not guarded against the thrd.join() of a pause in progress; the two orders
\* are the two outcomes: the join has returned (thrd is not joinable, the
\* assignment succeeds) or it has not (std::terminate()).
resumeBody ==
    IF running
    THEN UNCHANGED <<running, wpc, joinable, spawned, aborted>>
    ELSE /\ running' = TRUE
         /\ spawned' = spawned + 1
         /\ IF joinable
            THEN /\ aborted' = TRUE
                 /\ UNCHANGED <<wpc, joinable>>
            ELSE /\ wpc' = "loop"
                 /\ joinable' = TRUE
                 /\ aborted' = aborted

resume(t) ==
    /\ Idle(t) /\ Free
    /\ ncalls' = ncalls + 1
    /\ resumeBody
    /\ UNCHANGED <<queue, entries, head, tail, cur, timestamps, t_start, file, closes,
                   nopens, mtx, tpc, nadds, accepted, dropped, rendered, flog,
                   snap, pfile, born, sfStart, sfRunning, sfDrops, sfPath, lostAcross>>

\* ------------------------------------------------------------------- pause
\* The locked block of pause(), for a caller that found the instance running:
\* the sentinel is written at tail and tail advances, with no test for tail == head.
pauseBody ==
    /\ running' = FALSE
    /\ entries' = [entries EXCEPT ![tail].is_end = TRUE]
    /\ tail' = NextIndex(tail, size(entries))
    /\ wpc' = Notify(wpc)
    /\ queue' = Append(queue, End)

pause(t) ==
    /\ Idle(t) /\ Free
    /\ ncalls' = ncalls + 1
    /\ IF ~running
       THEN UNCHANGED <<running, entries, tail, wpc, tpc, snap, pfile, queue>>
       ELSE /\ pauseBody
            /\ tpc' = [tpc EXCEPT ![t] = "pause_join"]
            /\ snap' = [snap EXCEPT ![t] = Len(accepted)]
            /\ pfile' = [pfile EXCEPT ![t] = IF IsOpen(file) THEN file ELSE 0]
    /\ UNCHANGED <<head, cur, timestamps, t_start, file, closes, nopens,
                   joinable, mtx, aborted, spawned, nadds, accepted, dropped,
                   rendered, flog, born, sfStart, sfRunning, sfDrops, sfPath, lostAcross>>

\* thrd.join()
joinBody ==
    /\ JoinReady
    /\ joinable' = FALSE
    /\ wpc' = "joined"
    /\ spawned' = spawned - 1

pause_join(t) ==
    /\ tpc[t] = "pause_join" /\ ~aborted
    /\ joinBody
    /\ tpc' = [tpc EXCEPT ![t] = "idle"]
    /\ snap' = [snap EXCEPT ![t] = 0]
    /\ pfile' = [pfile EXCEPT ![t] = 0]
    /\ UNCHANGED <<queue, ncalls, entries, head, tail, cur, running, timestamps,
                   t_start, file, closes, nopens, mtx, aborted, nadds, accepted,
                   dropped, rendered, flog, born, sfStart, sfRunning, sfDrops,
                   sfPath, lostAcross>>

\* ---------------------------------------------------------------- set_file
\* set_file: the call of pause()
set_file(t, path) ==
    /\ Idle(t) /\ Free
    /\ ncalls' = ncalls + 1
    /\ sfPath' = [sfPath EXCEPT ![t] = path]
    /\ sfStart' = [sfStart EXCEPT ![t] = Len(accepted)]
    /\ sfRunning' = [sfRunning EXCEPT ![t] = running]
    /\ sfDrops' = [sfDrops EXCEPT ![t] = {}]
    /\ IF ~running
       THEN /\ tpc' = [tpc EXCEPT ![t] = "sf_close"]
            /\ UNCHANGED <<running, entries, tail, wpc, snap, pfile, queue>>
       ELSE /\ pauseBody
            /\ tpc' = [tpc EXCEPT ![t] = "sf_join"]
            /\ snap' = [snap EXCEPT ![t] = Len(accepted)]
            /\ pfile' = [pfile EXCEPT ![t] = IF IsOpen(file) THEN file ELSE 0]
    /\ UNCHANGED <<head, cur, timestamps, t_start, file, closes, nopens,
                   joinable, mtx, aborted, spawned, nadds, accepted, dropped,
                   rendered, flog, born, lostAcross>>

\* set_file: thrd.join() inside pause()
set_file_join(t) ==
    /\ tpc[t] = "sf_join" /\ ~aborted
    /\ joinBody
    /\ tpc' = [tpc EXCEPT ![t] = "sf_close"]
    /\ UNCHANGED <<queue, ncalls, entries, head, tail, cur, running, timestamps, t_start, file,
                   closes, nopens, mtx, aborted, nadds, accepted, dropped,
                   rendered, flog, snap, pfile, born, sfStart, sfRunning,
                   sfDrops, sfPath, lostAcross>>

\* set_file: if (file) fclose(file);   (file keeps the closed stream's address)
set_file_close(t) ==
    /\ tpc[t] = "sf_close" /\ ~aborted
    /\ closes' = IF file # 0 THEN [closes EXCEPT ![file] = @ + 1] ELSE closes
    /\ tpc' = [tpc EXCEPT ![t] = "sf_open"]
    /\ UNCHANGED <<queue, ncalls, entries, head, tail, cur, running, timestamps, t_start, file,
                   nopens, joinable, wpc, mtx, aborted, spawned, nadds, accepted,
                   dropped, rendered, flog, snap, pfile, born, sfStart,
                   sfRunning, sfDrops, sfPath, lostAcross>>

\* set_file: file = path ? fopen(path, "w") : nullptr;   (ok: fopen returns a stream)
set_file_open(t, ok) ==
    /\ tpc[t] = "sf_open" /\ ~aborted
    /\ IF sfPath[t] = "path" /\ ok
       THEN /\ nopens' = nopens + 1
            /\ file' = nopens + 1
            /\ born' = [born EXCEPT ![nopens + 1] = sfStart[t]]
            /\ sfPath' = [sfPath EXCEPT ![t] = "opened"]
       ELSE /\ file' = 0
            /\ sfPath' = [sfPath EXCEPT ![t] = IF sfPath[t] = "path" THEN "failed" ELSE "null"]
            /\ UNCHANGED <<nopens, born>>
    /\ tpc' = [tpc EXCEPT ![t] = "sf_resume"]
    /\ UNCHANGED <<queue, ncalls, entries, head, tail, cur, running, timestamps, t_start,
                   closes, joinable, wpc, mtx, aborted, spawned, nadds, accepted,
                   dropped, rendered, flog, snap, pfile, sfStart, sfRunning,
                   sfDrops, lostAcross>>

\* set_file: the call of resume(), after which set_file returns
set_file_resume(t) ==
    /\ tpc[t] = "sf_resume" /\ ~aborted /\ Free
    /\ resumeBody
    /\ tpc' = [tpc EXCEPT ![t] = "idle"]
    /\ lostAcross' = IF sfRunning[t] /\ ~aborted'
                     THEN lostAcross \cup sfDrops[t] ELSE lostAcross
    /\ snap' = [snap EXCEPT ![t] = 0]
    /\ pfile' = [pfile EXCEPT ![t] = 0]
    /\ sfStart' = [sfStart EXCEPT ![t] = 0]
    /\ sfRunning' = [sfRunning EXCEPT ![t] = FALSE]
    /\ sfDrops' = [sfDrops EXCEPT ![t] = {}]
    /\ sfPath' = [sfPath EXCEPT ![t] = "null"]
    /\ UNCHANGED <<queue, ncalls, entries, head, tail, cur, timestamps, t_start, file,
                   closes, nopens, mtx, nadds, accepted, dropped, rendered, flog,
                   born>>

\* ------------------------------------------------------------------ worker
\* mutant of AfterLockedBlock: the worker prints inside the locked block
HeldWhileRendering == "worker"

\* the owner of mtx once the worker has left the block of its unique_lock
AfterLockedBlock == "free"

\* std::unique_lock, cv.wait(lock, head != tail), cur = entries[head], head
\* advance, the closing brace that unlocks, and the test of cur.is_end: with
\* the predicate false the worker blocks in cv.wait and the mutex is free again
waitBody ==
    /\ Free /\ ~aborted
    /\ IF head = tail
       THEN /\ wpc' = "blocked"
            /\ mtx' = "free"
            /\ UNCHANGED <<cur, head, queue>>
       ELSE /\ cur' = entries[head]
            /\ head' = NextIndex(head, size(entries))
            /\ mtx' = AfterLockedBlock
            /\ wpc' = IF Breaks(entries[head]) THEN "exited" ELSE "print"
            /\ queue' = IF queue = <<>> THEN queue ELSE Tail(queue)
    /\ UNCHANGED <<ncalls, entries, tail, running, timestamps, t_start, file,
                   closes, nopens, joinable, tpc, aborted, spawned, nadds,
                   accepted, dropped, rendered, flog, snap, pfile, born, sfStart,
                   sfRunning, sfDrops, sfPath, lostAcross>>

\* the worker reaches the top of its while (true) loop
worker_wait == wpc = "loop" /\ waitBody

\* the worker was notified inside cv.wait and tests the predicate again
worker_wake == wpc = "woken" /\ waitBody

\* cur.print(); // stdout and stderr
worker_print ==
    /\ wpc = "print" /\ ~aborted
    /\ rendered' = Append(rendered, print(cur, 0))
    /\ wpc' = "printfile"
    /\ UNCHANGED <<queue, ncalls, entries, head, tail, cur, running, timestamps, t_start, file,
                   closes, nopens, joinable, mtx, tpc, aborted, spawned, nadds,
                   accepted, dropped, flog, snap, pfile, born, sfStart,
                   sfRunning, sfDrops, sfPath, lostAcross>>

\* if (file) cur.print(file);   (file is read without the mutex)
worker_printfile ==
    /\ wpc = "printfile" /\ ~aborted
    /\ flog' = IF file # 0
               THEN Append(flog, [out |-> print(cur, file), file |-> file,
                                  open |-> IsOpen(file)])
               ELSE flog
    /\ wpc' = "loop"
    /\ UNCHANGED <<queue, ncalls, entries, head, tail, cur, running, timestamps, t_start, file,
                   closes, nopens, joinable, mtx, tpc, aborted, spawned, nadds,
                   accepted, dropped, rendered, snap, pfile, born, sfStart,
                   sfRunning, sfDrops, sfPath, lostAcross>>

\* ------------------------------------------------------------- constructor
\* gpt_log(size_t capacity), resume() included: the worker has been started
Init ==
    /\ \E capacity \in 1 .. MaxCapacity :
          entries = [i \in 0 .. capacity - 1 |-> EmptyEntry]
    /\ head = 0
    /\ tail = 0
    /\ cur = EmptyEntry
    /\ running = TRUE
    /\ timestamps = TRUE
    /\ t_start \in StartValues
    /\ file = 0
    /\ closes = [f \in Streams |-> 0]
    /\ nopens = 0
    /\ joinable = TRUE
    /\ wpc = "loop"
    /\ mtx = "free"
    /\ tpc = [t \in Threads |-> "idle"]
    /\ aborted = FALSE
    /\ spawned = 1
    /\ nadds = 0
    /\ ncalls = 0
    /\ accepted = <<>>
    /\ queue = <<>>
    /\ dropped = {}
    /\ rendered = <<>>
    /\ flog = <<>>
    /\ snap = [t \in Threads |-> 0]
    /\ pfile = [t \in Threads |-> 0]
    /\ born = [f \in Streams |-> 0]
    /\ sfStart = [t \in Threads |-> 0]
    /\ sfRunning = [t \in Threads |-> FALSE]
    /\ sfDrops = [t \in Threads |-> {}]
    /\ sfPath = [t \in Threads |-> "null"]
    /\ lostAcross = {}

\* -------------------------------------------------------- specifications
Worker ==
    \/ worker_wait
    \/ worker_wake
    \/ worker_print
    \/ worker_printfile

\* Spec: two API threads and every lifecycle call; add is called with one
\* level and one clock reading (an entry's level and timestamp play no part in
\* the buffer and lifecycle protocol)
Add       == \E t \in Threads : nadds < MaxAdds /\ add(t, "INFO", 2)
Resume    == \E t \in Threads : ncalls < MaxCalls /\ resume(t)
Pause     == \E t \in Threads : ncalls < MaxCalls /\ pause(t)
PauseJoin == \E t \in Threads : pause_join(t)
SetFile   == \E t \in Threads, path \in Paths : ncalls < MaxCalls /\ set_file(t, path)
SetFileJoin   == \E t \in Threads : set_file_join(t)
SetFileClose  == \E t \in Threads : set_file_close(t)
SetFileOpen   == \E t \in Threads, ok \in BOOLEAN : set_file_open(t, ok)
SetFileResume == \E t \in Threads : set_file_resume(t)

Next ==
    \/ Add
    \/ Resume
    \/ Pause
    \/ PauseJoin
    \/ SetFile
    \/ SetFileJoin
    \/ SetFileClose
    \/ SetFileOpen
    \/ SetFileResume
    \/ Worker

Spec == Init /\ [][Next]_vars

\* StampSpec: one producer that calls add with every level and clock reading
\* and toggles the timestamps flag, and the worker
StampAdd == nadds < MaxStampAdds /\ \E level \in Levels, now \in ClockValues : add(1, level, now)
StampSet == \E b \in BOOLEAN : set_timestamps(1, b)

NextStamp ==
    \/ StampAdd
    \/ StampSet
    \/ Worker

StampSpec == Init /\ [][NextStamp]_vars

\* FairSpec: producers and one pause call, with the scheduling the threads
\* get: a worker step or a join that stays possible is eventually taken
FairAdd   == \E t \in Threads : nadds < MaxFairAdds /\ add(t, "INFO", 2)
FairPause == \E t \in Threads : ncalls < 1 /\ pause(t)

NextFair ==
    \/ FairAdd
    \/ FairPause
    \/ PauseJoin
    \/ Worker

FairSpec == Init /\ [][NextFair]_vars /\ WF_vars(Worker) /\ WF_vars(PauseJoin)

\* ================================================================== claims
WasAccepted(m) == \E i \in 1 .. Len(accepted) : accepted[i].msg = m
WasRendered(m) == \E j \in 1 .. Len(rendered) : rendered[j].msg = m
AcceptedAt(m)  == accepted[CHOOSE i \in 1 .. Len(accepted) : accepted[i].msg = m]

\* some API thread returns from thrd.join() in this step
JoinReturns(t) == tpc[t] \in {"pause_join", "sf_join"} /\ tpc'[t] # tpc[t]

\* C1: the messages the worker has rendered so far are a prefix of the
\* messages add accepted, in the order the add calls held the mutex: nothing
\* is rendered out of order, skipped or rendered twice, and each is rendered
\* with the level it was added with.
C1_RenderedIsPrefixOfAccepted ==
    /\ Len(rendered) <= Len(accepted)
    /\ \A i \in 1 .. Len(rendered) :
          /\ rendered[i].msg = accepted[i].msg
          /\ rendered[i].level = accepted[i].level

\* C1 witness: the buffer has grown to four slots or more and three messages
\* have been rendered.
C1_Witness == size(entries) >= 4 /\ Len(rendered) >= 3

\* C2 (as claimed): under fair scheduling every message add accepted is
\* eventually rendered, whatever is pending and also when pause is called
\* after the add.
C2_AcceptedEventuallyRendered ==
    \A m \in 1 .. MaxFairAdds : WasAccepted(m) ~> WasRendered(m)

\* C3 (as claimed): when a pause() that found the instance running returns,
\* the worker has exited and every message accepted before that pause wrote
\* its sentinel has been rendered to the console and, if it was accepted with
\* the file open that was open when pause was called, to that open file.
C3_PauseReturnsAfterDrainToItsSinks ==
    [][\A t \in Threads :
         (tpc[t] = "pause_join" /\ tpc'[t] = "idle") =>
            /\ wpc = "exited"
            /\ \A i \in 1 .. snap[t] :
                 /\ WasRendered(accepted[i].msg)
                 /\ (pfile[t] # 0 /\ accepted[i].file = pfile[t]) =>
                       \E k \in 1 .. Len(flog) :
                          /\ flog[k].out.msg = accepted[i].msg
                          /\ flog[k].file = pfile[t]
                          /\ flog[k].open]_vars

\* The state the behaviours that refute C2 and C4 end in: the instance is
\* stopped, the sentinel made tail wrap onto head, and the worker has not
\* exited.  PauseOverflowIsPermanent, checked under Spec with every API call
\* available, says that no call leads out of it other than into
\* std::terminate(): add and pause return at the running test, and resume
\* assigns to the joinable thrd.
PauseOverflow ==
    ~running /\ ~aborted /\ joinable /\ head = tail /\ wpc \notin {"exited", "joined"}

PauseOverflowIsPermanent ==
    [][PauseOverflow => (PauseOverflow' \/ aborted')]_vars

\* C4 (as claimed): under fair scheduling a pause() that found the instance
\* running eventually returns.
C4_PauseEventuallyReturns ==
    \A t \in Threads : (tpc[t] = "pause_join") ~> (tpc[t] = "idle")

\* C5 (as claimed): for a set_file call whose fopen succeeds, (a) no message
\* accepted before the call began is rendered to the new stream, (b) a message
\* accepted with that stream in place and no set_file call in progress is
\* rendered to no other stream and only while it is open, and (c) no message
\* is rendered to two streams.
C5_SinkSwitchSeparatesMessages ==
    \A k \in 1 .. Len(flog) :
       LET a == AcceptedAt(flog[k].out.msg) IN
       /\ \E i \in 1 .. Len(accepted) :
             accepted[i].msg = flog[k].out.msg /\ i > born[flog[k].file]
       /\ (a.quiet /\ a.file # 0) => (flog[k].file = a.file /\ flog[k].open)
       /\ \A l \in 1 .. Len(flog) :
             flog[l].out.msg = flog[k].out.msg => flog[l].file = flog[k].file

\* C6 (as claimed): no add call is lost across a set_file call that found the
\* instance running and has returned, the add calls made between its internal
\* pause and its internal resume included.  (An add call that is dropped is
\* never rendered: C7.)
C6_NoAddLostAcrossSetFile == lostAcross = {}

\* C6 (amended): when a set_file call that found the instance running
\* returns, every message add accepted before the call's internal pause wrote
\* its sentinel has been rendered; the add calls dropped since then, while the
\* instance was stopped, have not been rendered and never are.
C6_AcceptedBeforeSwitchIsRendered ==
    /\ [][\A t \in Threads :
            (tpc[t] = "sf_resume" /\ tpc'[t] = "idle" /\ sfRunning[t] /\ ~aborted') =>
               /\ \A i \in 1 .. snap[t] : WasRendered(accepted[i].msg)
               /\ \A m \in sfDrops[t] : ~WasRendered(m)]_vars
    /\ [](\A m \in lostAcross : ~WasRendered(m) /\ ~WasAccepted(m))

\* C6 witness: a set_file call has returned on an instance that runs again,
\* after an add call was dropped inside it, and a message accepted earlier has
\* been rendered.
C6_Witness ==
    /\ lostAcross # {} /\ running /\ ~aborted
    /\ \E m \in 1 .. nadds : WasRendered(m) /\ \A d \in lostAcross : m < d

\* C7: an add call on a stopped instance changes neither the buffer, nor the
\* worker (no wake-up, no new thread), nor any other field of the instance,
\* is not an error, and its message is never rendered, also not after a
\* later resume.
C7_AddWhenStoppedIsNoop ==
    /\ [][(nadds' # nadds /\ ~running) =>
             /\ UNCHANGED <<entries, head, tail, cur, running, timestamps,
                            t_start, file, closes, nopens, joinable, wpc, mtx,
                            aborted, spawned, accepted, rendered, flog>>
             /\ dropped' = dropped \cup {nadds'}]_vars
    /\ [](\A m \in dropped : ~WasRendered(m) /\ ~WasAccepted(m))

\* C7 witness: after a dropped add call the instance was resumed, a later
\* message was accepted and rendered, and the worker blocks on the empty buffer.
C7_Witness ==
    /\ dropped # {} /\ running /\ ~aborted /\ wpc = "blocked" /\ head = tail
    /\ \E m \in 1 .. nadds : WasRendered(m) /\ \A d \in dropped : d < m

\* the worker threads that have been started and have not returned
AliveWorkers == spawned - (IF wpc = "exited" THEN 1 ELSE 0)

\* C8 (as claimed): at most one worker thread is alive, and at most one
\* started worker thread is waiting to be joined: resume never starts a worker
\* while an earlier one has not exited and been joined.
C8_AtMostOneWorker == AliveWorkers <= 1 /\ spawned <= 1

\* C9: when thrd.join() returns in a pause that found the instance running,
\* the buffer is empty; it stays empty while the instance is stopped, so a
\* resume that starts a worker starts it on an empty buffer, and that worker
\* takes nothing out of the buffer before the next accepted add.
C9_PauseLeavesBufferEmpty ==
    /\ [][/\ (\E t \in Threads : JoinReturns(t)) => head' = tail'
          /\ (~running /\ running' /\ ~aborted') => head = tail
          /\ (head' # head /\ Len(accepted') = Len(accepted)) =>
                (\E i \in 1 .. Len(accepted) : accepted[i].msg = cur'.msg /\ ~WasRendered(cur'.msg))
                \/ (cur'.is_end /\ ~running)]_vars
    /\ []((~running /\ wpc = "joined") => head = tail)

\* C9 witness: a pause has returned after messages were accepted and
\* rendered, and a later resume has started a worker that blocks.
C9_Witness ==
    /\ running /\ ~aborted /\ wpc = "blocked" /\ head = tail
    /\ ncalls >= 2 /\ Len(rendered) >= 2 /\ dropped = {}
    /\ \A t \in Threads : tpc[t] = "idle"

\* C10 (as claimed): an entry whose level is not NONE is rendered with the
\* time prefix exactly when the timestamps flag was set while its add call
\* held the mutex.
C10_PrefixIffStampedAtAdd ==
    \A j \in 1 .. Len(rendered) :
       rendered[j].level # "NONE" =>
          (rendered[j].prefix <=> AcceptedAt(rendered[j].msg).stamped)

\* C11 (as claimed): when the fopen of a set_file call fails, then at the
\* return of that call there is no file sink, the instance is running with a
\* live worker and no error state was entered (so an add that follows is
\* accepted and printed to the console).
C11_SetFileSurvivesOpenFailure ==
    [][\A t \in Threads :
         (tpc[t] = "sf_resume" /\ sfPath[t] = "failed" /\ tpc'[t] # tpc[t]) =>
            /\ ~aborted'
            /\ file' = 0
            /\ running'
            /\ wpc' \notin {"exited", "joined"}]_vars

\* the fields of the instance, its worker and its outputs: every variable
\* but the counters of calls and the per-call records
instance == <<entries, head, tail, cur, running, timestamps, t_start, file,
              closes, nopens, joinable, wpc, mtx, aborted, spawned, queue,
              accepted, dropped, rendered, flog>>

\* C12: resume() on a running instance and pause() on a stopped instance
\* change nothing: no field of the instance, no slot, index or sentinel, no
\* worker started or woken, and the caller does not go on to join.  (So a
\* second resume() after resume(), or pause() after pause(), adds nothing.)
C12_LifecycleCallsAreIdempotent ==
    [][\A t \in Threads :
         /\ (running /\ resume(t)) => UNCHANGED <<instance, tpc>>
         /\ (~running /\ pause(t)) => UNCHANGED <<instance, tpc>>]_vars

\* C12 witness: three lifecycle calls have returned on an instance that
\* never accepted a message, and exactly one sentinel was ever written: two
\* of the calls were a resume() while running or a pause() while stopped.
C12_Witness ==
    /\ ncalls = 3 /\ nadds = 0 /\ ~running /\ ~aborted /\ wpc = "joined"
    /\ \A t \in Threads : tpc[t] = "idle"
    /\ Cardinality({i \in DOMAIN entries : entries[i].is_end}) = 1

\* C13 (as claimed): the microsecond field of every time prefix the worker
\* prints, on the console or in the file, is in 0 .. 999, whatever the two
\* clock readings were.
C13_MicrosecondFieldInRange ==
    /\ \A j \in 1 .. Len(rendered) : rendered[j].prefix => rendered[j].us \in 0 .. 999
    /\ \A k \in 1 .. Len(flog) : flog[k].out.prefix => flog[k].out.us \in 0 .. 999

\* the entries from slot h up to, not including, slot t, in the order the
\* worker takes them; n of them
Pending(es, h, n) == [i \in 1 .. n |-> es[(h + i - 1) % size(es)]]

\* C14: an add step that grows the buffer doubles the capacity, sets head to
\* 0 and tail to the old capacity, and the unconsumed entries read from head
\* after the step are the ones that were unconsumed before it, unchanged and
\* in the same order, followed by the entry this add wrote; the slots from
\* tail on are empty.
C14_GrowthKeepsPendingEntries ==
    [][size(entries') # size(entries) =>
         LET n == size(entries) IN
         /\ size(entries') = 2 * n
         /\ head' = 0
         /\ tail' = n
         /\ Len(queue) = n - 1
         /\ \A i \in 1 .. n - 1 :
               /\ Pending(entries', 0, n)[i] = Pending(entries, head, n - 1)[i]
               /\ Pending(entries', 0, n)[i].msg = queue[i]
         /\ entries'[n - 1].msg = nadds'
         /\ entries'[n - 1].level = accepted'[Len(accepted')].level
         /\ ~entries'[n - 1].is_end
         /\ \A i \in n .. 2 * n - 1 : entries'[i] = EmptyEntry]_vars

\* C14 witness: a buffer of two slots grew while head was 1: messages 2 and
\* 3 are the pending entries of the four-slot buffer, message 1 was taken
\* before.
C14_Witness ==
    /\ size(entries) = 4 /\ head = 0 /\ tail = 2
    /\ entries[0].msg = 2 /\ entries[1].msg = 3 /\ queue = <<2, 3>>

\* C15 (as claimed): head == tail exactly when nothing written at tail, a
\* message or a sentinel, is still waiting to be taken at head.
C15_EmptyIffHeadIsTail == (head = tail) <=> (queue = <<>>)

\* C16: head and tail are slot positions of the current buffer, also right
\* after a growth step and after pause wrote a sentinel.
C16_IndicesInRange ==
    /\ size(entries) >= 1
    /\ DOMAIN entries = 0 .. size(entries) - 1
    /\ head \in 0 .. size(entries) - 1
    /\ tail \in 0 .. size(entries) - 1

\* C16 witness: the buffer has grown to four slots, the sentinel of a pause
\* was written in the last slot so that tail wrapped to 0, and head is past
\* slot 0.
C16_Witness ==
    /\ size(entries) = 4 /\ tail = 0 /\ head > 0 /\ ~running
    /\ entries[3].is_end

\* C17: while the worker is at one of its two print calls it does not own
\* the mutex, and every API thread that is not inside a call can run a whole
\* add at that moment.
C17_WorkerRendersWithoutMutex ==
    (wpc \in {"print", "printfile"} /\ ~aborted) =>
        /\ mtx = "free"
        /\ \A t \in Threads : tpc[t] = "idle" => ENABLED add(t, "INFO", 2)

\* C17 witness: the worker took message 1 out of a two-slot buffer and has
\* not finished printing it, and message 2 was accepted meanwhile (had it
\* been accepted before, the buffer would have grown to four slots).
C17_Witness ==
    /\ wpc \in {"print", "printfile"} /\ cur.msg = 1
    /\ size(entries) = 2 /\ queue = <<2>>

\* C18 (as claimed): the file handle is closed or replaced only while no
\* worker thread is alive, the worker never prints to a stream that was
\* closed, and no stream is closed twice.
C18_FileChangesOnlyWithoutWorker ==
    /\ [][(file' # file \/ closes' # closes) => wpc \in {"exited", "joined"}]_vars
    /\ [](\A k \in 1 .. Len(flog) : flog[k].open)
    /\ [](\A f \in Streams : closes[f] <= 1)

\* C19: whenever the worker takes an entry out of the buffer, the entry is the
\* oldest unconsumed one; if add wrote it, its is_end is false, it carries the
\* message add stored and the worker goes on to print it, so the worker leaves
\* its loop only on an entry written by pause.
C19_MessageIsNeverSentinel ==
    [][(head' # head /\ size(entries') = size(entries)) =>
          /\ queue # <<>>
          /\ Head(queue) # End =>
                (~cur'.is_end /\ cur'.msg = Head(queue) /\ wpc' = "print")
          /\ wpc' = "exited" => Head(queue) = End]_vars

\* C19 witness: after a set_file, whose pause wrote a sentinel into the
\* two-slot buffer, two adds filled both slots and the growth step moved them
\* into the doubled buffer; the worker is printing the second of them.
C19_Witness ==
    /\ wpc = "print" /\ cur.msg = 2 /\ ~cur.is_end
    /\ size(entries) = 4 /\ nadds = 2 /\ ncalls = 1 /\ file # 0
    /\ running /\ ~aborted /\ dropped = {}
    /\ \A i \in DOMAIN entries : ~entries[i].is_end

\* the entries between head and tail, oldest first
Unconsumed == Pending(entries, head, (tail - head + size(entries)) % size(entries))

\* C20: among the entries written and not yet taken by the worker only the
\* last can be a sentinel, in the order of the writes and in the slots between
\* head and tail alike: no message is queued behind an unconsumed sentinel.
C20_SentinelIsLastUnconsumed ==
    /\ \A i \in 1 .. Len(queue) - 1 : queue[i] # End
    /\ \A i \in 1 .. Len(Unconsumed) - 1 : ~Unconsumed[i].is_end

\* C20 witness: a sentinel is queued behind two messages the worker has not
\* taken yet, in the doubled buffer.
C20_Witness ==
    /\ queue = <<1, 2, End>> /\ ~running /\ ~aborted
    /\ Len(Unconsumed) = 3 /\ Unconsumed[3].is_end
    /\ \E t \in Threads : tpc[t] = "pause_join"

====
